---- MODULE Spec2Model ----
(***************************************************************************)
(* A model of diskviewer/views.py: the three Django views (index,          *)
(* download, download_multiple), the helpers they call (get_file_list,     *)
(* get_file_metadata, download_file), the process-wide listing cache and   *)
(* the remote provider, whose answers are nondeterministic inputs.         *)
(***************************************************************************)
EXTENDS Integers, Sequences, FiniteSets, TLC

\* ------------------------------------------------------------------ bounds
NReq == 2          \* number of request slots
MaxPaths == 2      \* longest file_paths list of a multi-file request
MaxTime == 1200    \* the clock stops here

\* ------------------------------------------------------- program constants
CACHE_TIMEOUT == 600   \* cache.set(cache_key, files, timeout=600)

\* ------------------------------------------------------------ input values
Requests == 1..NReq
PublicKeys == {"k1", "k2"}
FilePaths == {"/a", "/b"}
FileNames == {"a.txt", "b c.txt"}
Hrefs == {"https://downloader/1"}
Bytes == {<< >>, <<7>>}
FileEntry == [name |-> "a.txt", path |-> "/a"]
Listings == {<< >>, <<FileEntry>>}

\* Python's None and a present value.
None == << >>
Some(v) == <<v>>

RECURSIVE SeqsUpTo(_, _)
SeqsUpTo(S, n) ==
  IF n = 0 THEN {<< >>}
  ELSE LET shorter == SeqsUpTo(S, n - 1)
       IN shorter \cup {Append(s, x) : s \in {t \in shorter : Len(t) = n - 1}, x \in S}

FilePathLists == SeqsUpTo(FilePaths, MaxPaths)

\* ---------------------------------------------- answers of the remote provider
\* requests.get raising (no connection, a body that is not JSON, ...).
ListRaises == [exc |-> TRUE, status_code |-> 0, has_items |-> FALSE, items |-> << >>]
ListResponses ==
  {ListRaises}
  \cup {[exc |-> FALSE, status_code |-> s, has_items |-> FALSE, items |-> << >>] : s \in {200, 404}}
  \cup {[exc |-> FALSE, status_code |-> 200, has_items |-> TRUE, items |-> l] : l \in Listings}

MetaRaises == [exc |-> TRUE, status_code |-> 0, has_name |-> FALSE, name |-> ""]
MetaResponses ==
  {MetaRaises}
  \cup {[exc |-> FALSE, status_code |-> s, has_name |-> FALSE, name |-> ""] : s \in {200, 404}}
  \cup {[exc |-> FALSE, status_code |-> 200, has_name |-> TRUE, name |-> n] : n \in FileNames}

LocRaises == [exc |-> TRUE, status_code |-> 0, has_href |-> FALSE, href |-> ""]
LocResponses ==
  {LocRaises}
  \cup {[exc |-> FALSE, status_code |-> s, has_href |-> FALSE, href |-> ""] : s \in {200, 404}}
  \cup {[exc |-> FALSE, status_code |-> 200, has_href |-> TRUE, href |-> h] : h \in Hrefs}

\* The GET of the href: the file's bytes on a 200, an error page otherwise.
ErrorPage == <<4, 0, 4>>
FileRaises == [exc |-> TRUE, status_code |-> 0, content |-> << >>]
FileResponses ==
  {FileRaises}
  \cup {[exc |-> FALSE, status_code |-> 200, content |-> b] : b \in Bytes}
  \cup {[exc |-> FALSE, status_code |-> 404, content |-> ErrorPage]}

\* One requests.get, as the provider sees it, with the answer it gave.
Call(op, public_key, path, response) ==
  [op |-> op, public_key |-> public_key, path |-> path, response |-> response]

\* ------------------------------------------------------------------- state
VARIABLES now, cache, req
vars == <<now, cache, req>>

\* The public key is left out of the cache key: every key shares one entry.
CacheKey_Shared(public_key) == <<"file_list_", "">>

\* cache_key = f"file_list_{public_key}"
CacheKey(public_key) == <<"file_list_", public_key>>
CacheKeys == {CacheKey(k) : k \in PublicKeys}

\* cache.get(cache_key): the stored value, None once the entry has expired.
CacheGet(c, cache_key, t) ==
  IF c[cache_key] = None \/ c[cache_key][1].expires <= t
  THEN None
  ELSE Some(c[cache_key][1].value)

\* cache.add semantics: an existing entry is kept.
CacheSet_KeepExisting(c, cache_key, value, timeout, t, by) ==
  IF c[cache_key] # None THEN c
  ELSE [c EXCEPT ![cache_key] =
          Some([value |-> value, expires |-> t + timeout, at |-> t, by |-> by])]

\* cache.set(cache_key, files, timeout): overwrites; `at` and `by` record the
\* time of the write and the request that made it.
CacheSet(c, cache_key, value, timeout, t, by) ==
  [c EXCEPT ![cache_key] =
     Some([value |-> value, expires |-> t + timeout, at |-> t, by |-> by])]

NoResponse == << >>
Idle ==
  [view |-> "none", pc |-> "idle", public_key |-> "", file_path |-> "",
   file_paths |-> << >>, i |-> 0, zip |-> << >>, seen |-> << >>, read_at |-> 0,
   calls |-> << >>, response |-> NoResponse]

\* ------------------------------------------------------------- responses
\* render(request, 'diskviewer/index.html', context)
Render(has_files, files, public_key) ==
  [status |-> 200, content_type |-> "text/html", disposition |-> "",
   body |-> [has_files |-> has_files, files |-> files, public_key |-> public_key]]

\* JsonResponse({'error': ...}, status=status); arg is the interpolated part.
JsonError(status, error, arg) ==
  [status |-> status, content_type |-> "application/json", disposition |-> "",
   body |-> [error |-> error, arg |-> arg]]

\* An exception that leaves the view: Django answers 500.
ServerError ==
  [status |-> 500, content_type |-> "exception", disposition |-> "", body |-> << >>]

Init ==
  /\ now = 0
  /\ cache = [ck \in CacheKeys |-> None]
  /\ req = [w \in Requests |-> Idle]

\* ------------------------------------------------------------------ index
\* if cached_files: an empty listing would count as a miss.
CacheHit_Truthy(cached_files) == cached_files # None /\ cached_files[1] # << >>

\* if cached_files is not None
CacheHit(cached_files) == cached_files # None

\* The status check is dropped: whatever came back is cached.
ListingOk_Always(response) == TRUE

\* if response.status_code == 200
ListingOk(response) == response.status_code = 200

\* response.json().get('_embedded', {}).get('items', [])
Items(response) == IF response.has_items THEN response.items ELSE << >>

\* index(request): a GET, or a POST whose form is not valid, renders the bare
\* form; a valid POST goes on to get_file_list(public_key).
IndexStart(w, method, valid, public_key) ==
  /\ req[w].pc = "idle"
  /\ IF method = "POST" /\ valid
     THEN req' = [req EXCEPT ![w] =
                    [Idle EXCEPT !.view = "index", !.pc = "cache_get",
                                 !.public_key = public_key]]
     ELSE req' = [req EXCEPT ![w] =
                    [Idle EXCEPT !.view = "index", !.pc = "done",
                                 !.response = Some(Render(FALSE, None, ""))]]
  /\ UNCHANGED <<now, cache>>

\* get_file_list, first half: cached_files = cache.get(cache_key); a hit is
\* returned and rendered. `seen` and `read_at` record the entry as stored and
\* the time of the read.
CacheGetStep(w) ==
  /\ req[w].pc = "cache_get"
  /\ LET cache_key == CacheKey(req[w].public_key)
         cached_files == CacheGet(cache, cache_key, now)
     IN IF CacheHit(cached_files)
        THEN req' = [req EXCEPT ![w].pc = "done",
                                ![w].seen = cache[cache_key],
                                ![w].read_at = now,
                                ![w].response =
                                   Some(Render(TRUE, cached_files, req[w].public_key))]
        ELSE req' = [req EXCEPT ![w].pc = "list_remote",
                                ![w].seen = cache[cache_key],
                                ![w].read_at = now]
  /\ UNCHANGED <<now, cache>>

\* get_file_list, second half: the remote listing call; a 200 is cached for
\* CACHE_TIMEOUT seconds and returned, anything else returns None, and index
\* renders what it got either way.
ListRemote(w, response) ==
  /\ req[w].pc = "list_remote"
  /\ LET public_key == req[w].public_key
         call == Call("list", public_key, "", response)
     IN IF response.exc
        THEN /\ req' = [req EXCEPT ![w].pc = "done",
                                   ![w].calls = Append(@, call),
                                   ![w].response = Some(ServerError)]
             /\ cache' = cache
        ELSE IF ListingOk(response)
        THEN /\ cache' = CacheSet(cache, CacheKey(public_key), Items(response),
                                  CACHE_TIMEOUT, now, w)
             /\ req' = [req EXCEPT ![w].pc = "done",
                                   ![w].calls = Append(@, call),
                                   ![w].response =
                                      Some(Render(TRUE, Some(Items(response)), public_key))]
        ELSE /\ cache' = cache
             /\ req' = [req EXCEPT ![w].pc = "done",
                                   ![w].calls = Append(@, call),
                                   ![w].response = Some(Render(TRUE, None, public_key))]
  /\ now' = now

\* Time passes: just short of the cache timeout, or exactly the timeout.
Tick(d) ==
  /\ now + d <= MaxTime
  /\ now' = now + d
  /\ UNCHANGED <<cache, req>>

TickSteps == {CACHE_TIMEOUT - 1, CACHE_TIMEOUT}

\* Concurrent listing requests, one per slot, under a running clock.
NextListing ==
  \/ \E d \in TickSteps : Tick(d)
  \/ \E w \in Requests, method \in {"GET", "POST"}, valid \in BOOLEAN, k \in PublicKeys :
       IndexStart(w, method, valid, k)
  \/ \E w \in Requests : CacheGetStep(w)
  \/ \E w \in Requests, response \in ListResponses : ListRemote(w, response)

SpecListing == Init /\ [][NextListing]_vars

\* ------------------------------------------------- the helpers of the downloads
\* The status check is dropped: the body is returned whatever the status.
get_file_metadata_Unchecked(public_key, path, response) ==
  LET call == Call("metadata", public_key, path, response)
  IN IF response.exc
     THEN [calls |-> <<call>>, raised |-> TRUE, value |-> None]
     ELSE [calls |-> <<call>>, raised |-> FALSE,
           value |-> Some([has_name |-> response.has_name, name |-> response.name])]

\* get_file_metadata(public_key, path): response.json() on a 200, else None.
get_file_metadata(public_key, path, response) ==
  LET call == Call("metadata", public_key, path, response)
  IN IF response.exc
     THEN [calls |-> <<call>>, raised |-> TRUE, value |-> None]
     ELSE IF response.status_code = 200
     THEN [calls |-> <<call>>, raised |-> FALSE,
           value |-> Some([has_name |-> response.has_name, name |-> response.name])]
     ELSE [calls |-> <<call>>, raised |-> FALSE, value |-> None]

\* download_file(public_key, path): the download location is asked for; on a
\* 200 its href is fetched and the body of that answer is returned, whatever
\* its status; otherwise None. requests.get(None) raises before any request.
download_file(public_key, path, location, file) ==
  LET c1 == Call("location", public_key, path, location)
      c2 == Call("content", public_key, path, file)
  IN IF location.exc
     THEN [calls |-> <<c1>>, raised |-> TRUE, value |-> None]
     ELSE IF location.status_code = 200
     THEN IF ~location.has_href
          THEN [calls |-> <<c1>>, raised |-> TRUE, value |-> None]
          ELSE IF file.exc
          THEN [calls |-> <<c1, c2>>, raised |-> TRUE, value |-> None]
          ELSE [calls |-> <<c1, c2>>, raised |-> FALSE, value |-> Some(file.content)]
     ELSE [calls |-> <<c1>>, raised |-> FALSE, value |-> None]

\* file_metadata.get('name', 'downloaded_file')
FileName(file_metadata) ==
  IF file_metadata.has_name THEN file_metadata.name ELSE "downloaded_file"

\* quote(file_name), on the names of the model.
Quote(file_name) ==
  CASE file_name = "b c.txt" -> "b%20c.txt"
    [] OTHER -> file_name

\* The test is made on the bytes: an empty file counts as no file.
Truthy_OfBytes(file_content) == file_content # None /\ file_content[1] # << >>

\* if file_content: a BytesIO object is true whatever it holds.
Truthy(file_content) == file_content # None

\* An entry of the same name is replaced.
ZipWriteStr_Replacing(zip, file_name, data) ==
  IF \E j \in DOMAIN zip : zip[j].name = file_name
  THEN [j \in DOMAIN zip |->
          IF zip[j].name = file_name THEN [name |-> file_name, data |-> data] ELSE zip[j]]
  ELSE Append(zip, [name |-> file_name, data |-> data])

\* zip_file.writestr(file_name, data): one more entry, duplicates kept.
ZipWriteStr(zip, file_name, data) == Append(zip, [name |-> file_name, data |-> data])

\* The check is missing.
NoFilesSelected_Never(file_paths) == FALSE

\* if not file_paths
NoFilesSelected(file_paths) == file_paths = << >>

\* HttpResponse(file_content.getvalue(), content_type=...) with its
\* Content-Disposition.
FileResponse(content, encoded_file_name) ==
  [status |-> 200,
   content_type |-> "application/vnd.openxmlformats-officedocument.spreadsheetml.sheet",
   disposition |-> encoded_file_name, body |-> content]

\* HttpResponse(zip_buffer.getvalue(), content_type='application/zip')
ZipResponse(zip) ==
  [status |-> 200, content_type |-> "application/zip",
   disposition |-> "downloaded_files.zip", body |-> zip]

\* --------------------------------------------------------------- download
DownloadStart(w, public_key, file_path) ==
  /\ req[w].pc = "idle"
  /\ req' = [req EXCEPT ![w] =
               [Idle EXCEPT !.view = "download", !.pc = "download",
                            !.public_key = public_key, !.file_path = file_path]]
  /\ UNCHANGED <<now, cache>>

\* download(request): metadata, then the content, then the response.
\* Errors: "file_not_found" is 'Файл не найден'.
DownloadStep(w, meta, location, file) ==
  /\ req[w].pc = "download"
  /\ LET public_key == req[w].public_key
         file_path == req[w].file_path
         m == get_file_metadata(public_key, file_path, meta)
         f == download_file(public_key, file_path, location, file)
     IN IF m.raised
        THEN req' = [req EXCEPT ![w].pc = "done", ![w].calls = m.calls,
                                ![w].response = Some(ServerError)]
        ELSE IF m.value = None
        THEN req' = [req EXCEPT ![w].pc = "done", ![w].calls = m.calls,
                                ![w].response =
                                   Some(JsonError(404, "file_not_found", ""))]
        ELSE IF f.raised
        THEN req' = [req EXCEPT ![w].pc = "done", ![w].calls = m.calls \o f.calls,
                                ![w].response = Some(ServerError)]
        ELSE IF Truthy(f.value)
        THEN req' = [req EXCEPT ![w].pc = "done", ![w].calls = m.calls \o f.calls,
                                ![w].response =
                                   Some(FileResponse(f.value[1],
                                                     Quote(FileName(m.value[1]))))]
        ELSE req' = [req EXCEPT ![w].pc = "done", ![w].calls = m.calls \o f.calls,
                                ![w].response =
                                   Some(JsonError(404, "file_not_found", ""))]
  /\ UNCHANGED <<now, cache>>

\* ------------------------------------------------------- download_multiple
\* download_multiple(request) up to the loop: no paths is a 400
\* ("no_files_selected" is 'Не выбраны файлы'); a loop over no paths would
\* end at once with an empty archive.
DownloadMultipleStart(w, public_key, file_paths) ==
  /\ req[w].pc = "idle"
  /\ LET r == [Idle EXCEPT !.view = "download_multiple", !.public_key = public_key,
                           !.file_paths = file_paths]
     IN IF NoFilesSelected(file_paths)
        THEN req' = [req EXCEPT ![w] =
                       [r EXCEPT !.pc = "done",
                                 !.response =
                                    Some(JsonError(400, "no_files_selected", ""))]]
        ELSE IF file_paths = << >>
        THEN req' = [req EXCEPT ![w] =
                       [r EXCEPT !.pc = "done", !.response = Some(ZipResponse(<< >>))]]
        ELSE req' = [req EXCEPT ![w] = [r EXCEPT !.pc = "loop", !.i = 1]]
  /\ UNCHANGED <<now, cache>>

\* One turn of `for file_path in file_paths`, and after the last one the
\* archive response. Errors: "file_not_found" is 'Файл не найден: {file_path}',
\* "download_failed" is 'Не удалось скачать файл: {file_name}'.
DownloadMultipleIter(w, meta, location, file) ==
  /\ req[w].pc = "loop"
  /\ LET public_key == req[w].public_key
         file_path == req[w].file_paths[req[w].i]
         m == get_file_metadata(public_key, file_path, meta)
         f == download_file(public_key, file_path, location, file)
         zip == ZipWriteStr(req[w].zip, FileName(m.value[1]), f.value[1])
     IN IF m.raised
        THEN req' = [req EXCEPT ![w].pc = "done", ![w].calls = @ \o m.calls,
                                ![w].response = Some(ServerError)]
        ELSE IF m.value = None
        THEN req' = [req EXCEPT ![w].pc = "done", ![w].calls = @ \o m.calls,
                                ![w].response =
                                   Some(JsonError(404, "file_not_found", file_path))]
        ELSE IF f.raised
        THEN req' = [req EXCEPT ![w].pc = "done",
                                ![w].calls = @ \o m.calls \o f.calls,
                                ![w].response = Some(ServerError)]
        ELSE IF ~Truthy(f.value)
        THEN req' = [req EXCEPT ![w].pc = "done",
                                ![w].calls = @ \o m.calls \o f.calls,
                                ![w].response =
                                   Some(JsonError(404, "download_failed",
                                                  FileName(m.value[1])))]
        ELSE IF req[w].i = Len(req[w].file_paths)
        THEN req' = [req EXCEPT ![w].pc = "done",
                                ![w].calls = @ \o m.calls \o f.calls,
                                ![w].zip = zip,
                                ![w].response = Some(ZipResponse(zip))]
        ELSE req' = [req EXCEPT ![w].calls = @ \o m.calls \o f.calls,
                                ![w].zip = zip,
                                ![w].i = @ + 1]
  /\ UNCHANGED <<now, cache>>

\* The response is sent and the worker takes the next request.
Finish(w) ==
  /\ req[w].pc = "done"
  /\ req' = [req EXCEPT ![w] = Idle]
  /\ UNCHANGED <<now, cache>>

\* One worker serving requests to the three views one after the other, the
\* clock standing still (the downloads read neither the clock nor the cache).
Worker == CHOOSE w \in Requests : \A v \in Requests : w <= v

NextDownload ==
  \/ \E method \in {"GET", "POST"}, valid \in BOOLEAN, k \in PublicKeys :
       IndexStart(Worker, method, valid, k)
  \/ CacheGetStep(Worker)
  \/ \E response \in ListResponses : ListRemote(Worker, response)
  \/ \E k \in PublicKeys, file_path \in FilePaths : DownloadStart(Worker, k, file_path)
  \/ \E meta \in MetaResponses, location \in LocResponses, file \in FileResponses :
       DownloadStep(Worker, meta, location, file)
  \/ \E k \in PublicKeys, file_paths \in FilePathLists :
       DownloadMultipleStart(Worker, k, file_paths)
  \/ \E meta \in MetaResponses, location \in LocResponses, file \in FileResponses :
       DownloadMultipleIter(Worker, meta, location, file)
  \/ Finish(Worker)

SpecDownload == Init /\ [][NextDownload]_vars

\* ------------------------------------------------- notions used by the claims
Done(w) == req[w].pc = "done"
Resp(w) == req[w].response[1]
LastCall(r) == r.calls[Len(r.calls)]
Answered200(c) == ~c.response.exc /\ c.response.status_code = 200
AnsweredNon200(c) == ~c.response.exc /\ c.response.status_code # 200

\* What request w found stored under its key when it read the cache.
SawEntry(w) == req[w].seen # None
WithinTTL(w) == SawEntry(w) /\ req[w].read_at - req[w].seen[1].at < CACHE_TIMEOUT
TTLElapsed(w) == SawEntry(w) /\ req[w].read_at - req[w].seen[1].at >= CACHE_TIMEOUT
HasReadCache(w) == req[w].view = "index" /\ req[w].pc \in {"list_remote", "done"}
                   /\ req[w].public_key \in PublicKeys

\* The step of request w that ends its remote listing call.
ListingReturns(w) == req[w].pc = "list_remote" /\ req'[w].pc = "done"

\* The listings that successful remote listing calls for public_key returned.
Returned(public_key) ==
  {Items(req[w].calls[i].response) :
     <<w, i>> \in {p \in Requests \X (1..(3 * MaxPaths)) :
                     /\ p[2] \in DOMAIN req[p[1]].calls
                     /\ req[p[1]].calls[p[2]].op = "list"
                     /\ req[p[1]].calls[p[2]].public_key = public_key
                     /\ Answered200(req[p[1]].calls[p[2]])}}

\* ---------------------------------------------------------------- claims
\* C1: a listing request that reads, within 600 seconds of its write, the
\* entry another request's successful remote call stored, is answered from the
\* cache with that same listing (the empty one too) and issues no remote call,
\* so the two requests issued exactly one remote listing call between them.
C1_SecondListingWithinTTLIsCacheHit ==
  \A w2 \in Requests :
    (HasReadCache(w2) /\ WithinTTL(w2)) =>
      LET e == req[w2].seen[1]
          w1 == e.by
      IN /\ Done(w2)
         /\ req[w2].calls = << >>
         /\ Resp(w2) = Render(TRUE, Some(e.value), req[w2].public_key)
         /\ Done(w1)
         /\ Resp(w1) = Render(TRUE, Some(e.value), req[w2].public_key)
         /\ Len(req[w1].calls) = 1
         /\ req[w1].calls[1].op = "list"
         /\ Answered200(req[w1].calls[1])
         /\ Len(req[w1].calls) + Len(req[w2].calls) = 1

C1_Witness ==
  \E w2 \in Requests :
    /\ Done(w2) /\ HasReadCache(w2) /\ WithinTTL(w2)
    /\ req[w2].seen[1].value = << >>
    /\ req[w2].read_at = req[w2].seen[1].at + CACHE_TIMEOUT - 1
    /\ req[w2].seen[1].by # w2

C2_Step(w) ==
  LET cache_key == CacheKey(req[w].public_key)
  IN /\ (/\ req[w].pc = "cache_get" /\ req'[w].pc # "cache_get"
         /\ cache[cache_key] # None
         /\ now - cache[cache_key][1].at >= CACHE_TIMEOUT)
        => req'[w].pc = "list_remote"
     /\ (/\ ListingReturns(w) /\ TTLElapsed(w)
         /\ Answered200(LastCall(req'[w])))
        => /\ Len(req'[w].calls) = 1
           /\ LastCall(req'[w]).op = "list"
           /\ LastCall(req'[w]).public_key = req[w].public_key
           /\ cache'[cache_key] # None
           /\ cache'[cache_key][1].value = Items(LastCall(req'[w]).response)
           /\ cache'[cache_key][1].expires = now + CACHE_TIMEOUT

\* C2: once 600 seconds have passed since the entry for K was written, a
\* listing request for K misses and issues a remote listing call, and when
\* that call answers 200 the entry for K becomes the listing it returned,
\* expiring 600 seconds after the time of this write.
C2_RefreshAfterTTL == [][\A w \in Requests : C2_Step(w)]_vars

C2_Witness ==
  \E w \in Requests :
    /\ Done(w) /\ HasReadCache(w) /\ TTLElapsed(w)
    /\ Len(req[w].calls) = 1 /\ Answered200(req[w].calls[1])
    /\ cache[CacheKey(req[w].public_key)] # None
    /\ cache[CacheKey(req[w].public_key)][1].by = w
    /\ cache[CacheKey(req[w].public_key)][1].value # req[w].seen[1].value
    /\ cache[CacheKey(req[w].public_key)][1].expires
         >= req[w].seen[1].expires + CACHE_TIMEOUT

C3_Step(w) ==
  (ListingReturns(w) /\ AnsweredNon200(LastCall(req'[w]))) => cache' = cache

C3_NextMisses ==
  \A w1 \in Requests, w2 \in Requests :
    (/\ w1 # w2 /\ HasReadCache(w1) /\ HasReadCache(w2)
     /\ Done(w1) /\ req[w1].calls # << >> /\ AnsweredNon200(LastCall(req[w1]))
     /\ req[w2].public_key = req[w1].public_key
     /\ req[w2].seen = req[w1].seen
     /\ req[w2].read_at >= req[w1].read_at)
    => \/ req[w2].pc = "list_remote"
       \/ Done(w2) /\ Len(req[w2].calls) = 1 /\ req[w2].calls[1].op = "list"

\* C3: a listing request whose remote call answers a non-200 status leaves
\* the cache as it was, and a later request for the same key that finds the
\* cache as that request found it issues a remote listing call of its own.
C3_FailedListingNotCached ==
  [][\A w \in Requests : C3_Step(w)]_vars /\ []C3_NextMisses

C3_Witness ==
  \E w1 \in Requests, w2 \in Requests :
    /\ w1 # w2 /\ Done(w1) /\ Done(w2)
    /\ HasReadCache(w1) /\ HasReadCache(w2)
    /\ req[w1].calls # << >> /\ AnsweredNon200(LastCall(req[w1]))
    /\ req[w2].public_key = req[w1].public_key
    /\ req[w2].seen = req[w1].seen
    /\ Len(req[w2].calls) = 1
    /\ cache[CacheKey(req[w1].public_key)] = None

\* C9: every request in which a remote call failed (an exception, or a
\* non-200 answer) ends in a response with an error status code.
C9_EveryRemoteFailureIsAnErrorResponse ==
  \A w \in Requests :
    (Done(w) /\ \E i \in DOMAIN req[w].calls :
                   req[w].calls[i].response.exc \/ AnsweredNon200(req[w].calls[i]))
    => Resp(w).status >= 400

C10_EntryWasReturned ==
  \A k \in PublicKeys :
    \/ cache[CacheKey(k)] = None
    \/ cache[CacheKey(k)][1].value \in Returned(k)

C10_EachMissCalls ==
  \A w \in Requests :
    (Done(w) /\ HasReadCache(w) /\ CacheGet([ck \in CacheKeys |-> req[w].seen],
                                          CacheKey(req[w].public_key),
                                          req[w].read_at) = None)
    => Len(req[w].calls) = 1 /\ req[w].calls[1].op = "list"
       /\ req[w].calls[1].public_key = req[w].public_key

C10_Step ==
  /\ \A w \in Requests :
       (ListingReturns(w) /\ Answered200(LastCall(req'[w])))
       => /\ cache'[CacheKey(req[w].public_key)] # None
          /\ cache'[CacheKey(req[w].public_key)][1].value
               = Items(LastCall(req'[w]).response)
          /\ \A k \in PublicKeys \ {req[w].public_key} :
               cache'[CacheKey(k)] = cache[CacheKey(k)]
  /\ \A k \in PublicKeys :
       cache'[CacheKey(k)] # cache[CacheKey(k)]
       => \E w \in Requests :
            /\ ListingReturns(w) /\ Answered200(LastCall(req'[w]))
            /\ req[w].public_key = k

\* C10: under every interleaving the entry for a key is absent or a listing
\* some successful remote call for that key returned; every request that
\* misses issues its own remote call; a successful call's write replaces the
\* entry of its own key only, so the last write is what the entry holds.
C10_LastWriterWins ==
  []C10_EntryWasReturned /\ []C10_EachMissCalls /\ [][C10_Step]_vars

C10_Witness ==
  \E w1 \in Requests, w2 \in Requests, k \in PublicKeys :
    /\ w1 # w2 /\ Done(w1) /\ Done(w2)
    /\ req[w1].public_key = k /\ req[w2].public_key = k
    /\ req[w1].seen = None /\ req[w2].seen = None
    /\ Len(req[w1].calls) = 1 /\ Len(req[w2].calls) = 1
    /\ Answered200(req[w1].calls[1]) /\ Answered200(req[w2].calls[1])
    /\ Items(req[w1].calls[1].response) # Items(req[w2].calls[1].response)
    /\ cache[CacheKey(k)] # None
    /\ cache[CacheKey(k)][1].by = w2
    /\ cache[CacheKey(k)][1].value = Items(req[w2].calls[1].response)
    /\ \A k2 \in PublicKeys \ {k} : cache[CacheKey(k2)] = None

\* ------------------------------------------------ claims about the downloads
IsMulti(w) == req[w].view = "download_multiple"
IsDownload(w) == req[w].view = "download"

\* Every remote call of request w was answered 200 (with an href, for a
\* download location).
AllAnswered200(w) ==
  \A j \in DOMAIN req[w].calls :
    /\ Answered200(req[w].calls[j])
    /\ req[w].calls[j].op = "location" => req[w].calls[j].response.has_href

DisplayName(response) ==
  IF response.has_name THEN response.name ELSE "downloaded_file"

\* The calls of turn j of the loop are those of file_paths[j], in order.
TurnFetched(w, j) ==
  LET c == req[w].calls
      k == req[w].public_key
      path == req[w].file_paths[j]
  IN /\ 3 * j <= Len(c)
     /\ c[3 * j - 2].op = "metadata" /\ c[3 * j - 2].public_key = k
     /\ c[3 * j - 2].path = path
     /\ c[3 * j - 1].op = "location" /\ c[3 * j - 1].public_key = k
     /\ c[3 * j - 1].path = path
     /\ c[3 * j].op = "content" /\ c[3 * j].public_key = k /\ c[3 * j].path = path

\* C4: a multi-file download of N >= 1 paths in which every remote call
\* answers 200 returns an archive of exactly N entries, the i-th named after
\* the name in the metadata answered for the i-th path (downloaded_file if it
\* has none) and holding the bytes answered for the i-th path, duplicates of
\* a path included.
C4_ArchiveHasOneEntryPerPath ==
  \A w \in Requests :
    (Done(w) /\ IsMulti(w) /\ req[w].file_paths # << >> /\ AllAnswered200(w))
    => LET n == Len(req[w].file_paths)
       IN /\ Len(req[w].calls) = 3 * n
          /\ Resp(w).status = 200
          /\ Resp(w).content_type = "application/zip"
          /\ Len(Resp(w).body) = n
          /\ \A j \in 1..n :
               /\ TurnFetched(w, j)
               /\ Resp(w).body[j].name = DisplayName(req[w].calls[3 * j - 2].response)
               /\ Resp(w).body[j].data = req[w].calls[3 * j].response.content

C4_Witness ==
  \E w \in Requests :
    /\ Done(w) /\ IsMulti(w) /\ AllAnswered200(w)
    /\ Len(req[w].file_paths) = 2
    /\ req[w].file_paths[1] = req[w].file_paths[2]
    /\ Len(Resp(w).body) = 2
    /\ Resp(w).body[1].name = Resp(w).body[2].name
    /\ Resp(w).body[1].name \in FileNames
    /\ Resp(w).body[1].data # Resp(w).body[2].data

\* The first metadata call of request w that was answered with a non-200.
FailedMetadataAt(w, p) ==
  /\ p \in DOMAIN req[w].calls
  /\ req[w].calls[p].op = "metadata" /\ AnsweredNon200(req[w].calls[p])
  /\ \A q \in 1..(p - 1) :
       ~(req[w].calls[q].op = "metadata" /\ AnsweredNon200(req[w].calls[q]))

\* C5: in a multi-file download whose metadata lookup answers a non-200 for
\* the k-th path, paths 1..k-1 having been fetched, the response is a 404
\* naming that path and carrying no archive, and the failed lookup is the
\* last remote call: none for the content of path k, none for a later path.
C5_MetadataFailureAborts ==
  \A w \in Requests :
    (IsMulti(w) /\ req[w].pc \in {"loop", "done"}) =>
      \A p \in DOMAIN req[w].calls :
        FailedMetadataAt(w, p) =>
          LET k == ((p - 1) \div 3) + 1
          IN /\ Done(w)
             /\ p = Len(req[w].calls)
             /\ p = 3 * (k - 1) + 1
             /\ k <= Len(req[w].file_paths)
             /\ req[w].calls[p].path = req[w].file_paths[k]
             /\ \A j \in 1..(k - 1) : TurnFetched(w, j)
             /\ Resp(w) = JsonError(404, "file_not_found", req[w].file_paths[k])

C5_Witness ==
  \E w \in Requests :
    /\ Done(w) /\ IsMulti(w)
    /\ Len(req[w].file_paths) = 2
    /\ FailedMetadataAt(w, 4)
    /\ req[w].zip # << >>
    /\ Resp(w).status = 404

C6_Rejected ==
  \A w \in Requests :
    (IsMulti(w) /\ req[w].file_paths = << >>)
    => /\ Done(w)
       /\ Resp(w) = JsonError(400, "no_files_selected", "")
       /\ req[w].calls = << >>

C6_Step ==
  \A w \in Requests :
    (req[w].pc = "idle" /\ IsMulti(w)' /\ req'[w].file_paths = << >>)
    => cache' = cache /\ req'[w].calls = << >> /\ req'[w].pc = "done"

\* C6: a multi-file download with no paths is answered 400 at once: no
\* remote call is made and the cache is left as it was.
C6_EmptyPathsRejected == []C6_Rejected /\ [][C6_Step]_vars

C6_Witness ==
  \E w \in Requests :
    /\ Done(w) /\ IsMulti(w) /\ req[w].file_paths = << >>
    /\ Resp(w).status = 400
    /\ \E k \in PublicKeys : cache[CacheKey(k)] # None

\* C7: a download in which the download location or the content request was
\* answered with a non-200 ends in a 404 error response, which in a multi-file
\* download names the file ("download_failed") and carries no archive.
C7_FailedFetchIsAnError ==
  \A w \in Requests :
    (/\ Done(w) /\ (IsMulti(w) \/ IsDownload(w))
     /\ \E j \in DOMAIN req[w].calls :
          /\ req[w].calls[j].op \in {"location", "content"}
          /\ AnsweredNon200(req[w].calls[j]))
    => /\ Resp(w).status = 404
       /\ Resp(w).content_type = "application/json"
       /\ IsMulti(w) => Resp(w).body.error = "download_failed"

====
